---- MODULE Spec2Model ----
(***************************************************************************)
(* Model of docs/timesheet.py: load() and the three readers STS, TDTS and  *)
(* XDTS, each of which hands its raw layers to Timesheet.__init__, which   *)
(* normalizes every layer in place.                                        *)
(*                                                                         *)
(* A behaviour is one call of load(): Init draws the file, one Load action *)
(* runs the reader and the constructor, and the call either returns the    *)
(* Timesheet (pc = "returned") or raises (pc = "raised").                  *)
(*                                                                         *)
(* Python lists are 0-based, TLA+ sequences 1-based: python frames[i] is   *)
(* frames[i + 1] here.  Strings whose characters the code inspects (the    *)
(* JSON frame values) are sequences of one-character strings.              *)
(***************************************************************************)
EXTENDS Integers, Sequences, FiniteSets

VARIABLES ext, file, pc, raw, layers, frame_count, error

vars == <<ext, file, pc, raw, layers, frame_count, error>>

(* ------------------------------ bounds --------------------------------- *)

\* JSON: most frame entries in one timeTable (over all its tracks).
MaxEntries == 2
\* JSON: largest "frame" index of a frame entry.
MaxFrame == 1
\* STS: largest layer_count written in a file.
MaxLayers == 1
\* STS: largest frame_count written in a file.
MaxFrameCount == 4

(* ------------------------------ helpers -------------------------------- *)

Min(a, b) ==
    IF a < b THEN a ELSE b

\* All sequences over S of length 0..n.
SeqsUpTo(S, n) ==
    UNION {[1..k -> S] : k \in 0..n}

(* ------------------------- Frame, Layer -------------------------------- *)

Frame(frame, cell) ==
    [frame |-> frame, cell |-> cell]

Layer(name, frames) ==
    [name |-> name, frames |-> frames]

(* ---------------------- Timesheet.__init__ ----------------------------- *)

\* list.pop(i) for the python index i - 1.
Pop(frames, i) ==
    SubSeq(frames, 1, i - 1) \o SubSeq(frames, i + 1, Len(frames))

\* Mutant: the entry at frame 0 is never inserted.
InsertZero_NoInsert(frames) ==
    frames

\* Mutant: the entry at frame 0 is appended instead of inserted in front.
InsertZero_Append(frames) ==
    IF frames[1].frame # 0 THEN Append(frames, Frame(0, 0)) ELSE frames

\* frames.insert(0, Frame(0, 0)) when the first entry is not at frame 0.
InsertZero(frames) ==
    IF frames[1].frame # 0 THEN <<Frame(0, 0)>> \o frames ELSE frames

\* Mutant: after a pop the scan skips the next comparison, as a forward scan
\* over a list that shrinks would.
RECURSIVE Scan_SkipAfterPop(_, _)
Scan_SkipAfterPop(frames, i) ==
    IF i < 2 THEN frames
    ELSE IF frames[i].cell = frames[i - 1].cell
         THEN Scan_SkipAfterPop(Pop(frames, i), i - 2)
         ELSE Scan_SkipAfterPop(frames, i - 1)

\* Mutant: the scan ends at its first pop.
RECURSIVE Scan_StopAfterPop(_, _)
Scan_StopAfterPop(frames, i) ==
    IF i < 2 THEN frames
    ELSE IF frames[i].cell = frames[i - 1].cell
         THEN Pop(frames, i)
         ELSE Scan_StopAfterPop(frames, i - 1)

\* The loop "for i in range(len(frames) - 1, 0, -1)" from python index i - 1
\* down to python index 1: an entry whose cell equals its predecessor's is
\* popped, and the scan goes on with the next lower index.
RECURSIVE Scan(_, _)
Scan(frames, i) ==
    IF i < 2 THEN frames
    ELSE IF frames[i].cell = frames[i - 1].cell
         THEN Scan(Pop(frames, i), i - 1)
         ELSE Scan(frames, i - 1)

\* The body of "for layer in layers" for a layer that has a first entry.
Normalize(frames) ==
    LET inserted == InsertZero(frames)
    IN  Scan(inserted, Len(inserted))

\* Timesheet.__init__: frames[0] of an empty list raises IndexError, which
\* no caller catches; otherwise every layer is normalized.
Timesheet(ls) ==
    IF \E k \in 1..Len(ls) : ls[k].frames = <<>>
    THEN [error |-> "IndexError", layers |-> <<>>]
    ELSE [error |-> "",
          layers |-> [k \in 1..Len(ls) |->
                        Layer(ls[k].name, Normalize(ls[k].frames))]]

(* ------------------------------- STS ----------------------------------- *)

\* "ShiraheiTimeSheet" as bytes.
Magic ==
    <<83, 104, 105, 114, 97, 104, 101, 105, 84, 105, 109, 101, 83, 104, 101,
      101, 116>>

\* f.read(n) at position pos: the bytes that are left, at most n of them.
Read(stream, pos, n) ==
    SubSeq(stream, pos + 1, Min(pos + n, Len(stream)))

\* The file position after f.read(n) at position pos.
Tell(stream, pos, n) ==
    Min(pos + n, Len(stream))

\* int.from_bytes(bytes, byteorder='little', signed=False); 0 for b"".
RECURSIVE FromBytesLE(_)
FromBytesLE(bytes) ==
    IF bytes = <<>> THEN 0
    ELSE bytes[1] + 256 * FromBytesLE(Tail(bytes))

\* f.int(length) at position pos.
ReadInt(stream, pos, length) ==
    FromBytesLE(Read(stream, pos, length))

\* Mutant: the cell is compared with the first appended cell of the layer,
\* not with the last.
AppendCell_CompareFirst(frames, j, cell) ==
    IF Len(frames) = 0 \/ frames[1].cell # cell
    THEN Append(frames, Frame(j, cell))
    ELSE frames

\* The body of "for j in range(frame_count)": the cell is appended when it
\* differs from the last appended cell of the layer.
AppendCell(frames, j, cell) ==
    IF Len(frames) = 0 \/ frames[Len(frames)].cell # cell
    THEN Append(frames, Frame(j, cell))
    ELSE frames

\* "for j in range(frame_count)" from j on, reading at position pos.
RECURSIVE ReadGrid(_, _, _, _, _)
ReadGrid(stream, pos, fc, j, frames) ==
    IF j >= fc THEN frames
    ELSE ReadGrid(stream, Tell(stream, pos, 2), fc, j + 1,
                  AppendCell(frames, j, ReadInt(stream, pos, 2)))

\* "for i in range(layer_count)" of the grids, from layer i on (0-based):
\* the list frames_list.
RECURSIVE ReadGrids(_, _, _, _, _, _)
ReadGrids(stream, pos, lc, fc, i, frames_list) ==
    IF i >= lc THEN frames_list
    ELSE ReadGrids(stream, Tell(stream, pos, 2 * fc), lc, fc, i + 1,
                   Append(frames_list, ReadGrid(stream, pos, fc, 0, <<>>)))

\* "for i in range(layer_count)" of the names, from layer i on (0-based).
\* name_bytes.decode("shift-jis") maps each byte below 0x80 to the character
\* of the same code; the files of the model hold no other name byte, and a
\* name is kept as the sequence of its character codes.
RECURSIVE ReadNames(_, _, _, _, _, _)
ReadNames(stream, pos, lc, i, frames_list, ls) ==
    IF i >= lc THEN ls
    ELSE LET name_length == ReadInt(stream, pos, 1)
             at == Tell(stream, pos, 1)
             name == Read(stream, at, name_length)
         IN  ReadNames(stream, Tell(stream, at, name_length), lc, i + 1,
                       frames_list, Append(ls, Layer(name, frames_list[i + 1])))

\* STS.__init__ up to the call of super().__init__: the magic check, the
\* header and the layers handed to Timesheet.__init__.
STS_read(stream) ==
    LET p1 == Tell(stream, 0, 1)
        p2 == Tell(stream, p1, 17)
        lc == ReadInt(stream, p2, 1)
        p3 == Tell(stream, p2, 1)
        fc == ReadInt(stream, p3, 2)
        p4 == Tell(stream, Tell(stream, p3, 2), 2)
        frames_list == ReadGrids(stream, p4, lc, fc, 0, <<>>)
        p5 == Tell(stream, p4, 2 * fc * lc)
    IN  IF Read(stream, p1, 17) # Magic
        THEN [error |-> "NotSTSFileFormatError", layer_count |-> 0,
              frame_count |-> 0, layers |-> <<>>]
        ELSE [error |-> "", layer_count |-> lc, frame_count |-> fc,
              layers |-> ReadNames(stream, p5, lc, 0, frames_list, <<>>)]

(* ------------------------- JSON frame values --------------------------- *)

SYMBOL_NULL_CELL ==
    <<"S", "Y", "M", "B", "O", "L", "_", "N", "U", "L", "L", "_", "C", "E", "L", "L">>

SYMBOL_TICK_1 ==
    <<"S", "Y", "M", "B", "O", "L", "_", "T", "I", "C", "K", "_", "1">>

SYMBOL_TICK_2 ==
    <<"S", "Y", "M", "B", "O", "L", "_", "T", "I", "C", "K", "_", "2">>

SYMBOL_HYPHEN ==
    <<"S", "Y", "M", "B", "O", "L", "_", "H", "Y", "P", "H", "E", "N">>

Digits ==
    {"0", "1", "2", "3", "4", "5", "6", "7", "8", "9"}

Whitespace ==
    {" ", "\t", "\n", "\r"}

DigitVal(c) ==
    CASE c = "0" -> 0 [] c = "1" -> 1 [] c = "2" -> 2 [] c = "3" -> 3
      [] c = "4" -> 4 [] c = "5" -> 5 [] c = "6" -> 6 [] c = "7" -> 7
      [] c = "8" -> 8 [] c = "9" -> 9

\* The number a run of decimal digits denotes (0 for the empty run).
RECURSIVE DigitsValue(_)
DigitsValue(s) ==
    IF s = <<>> THEN 0
    ELSE 10 * DigitsValue(SubSeq(s, 1, Len(s) - 1)) + DigitVal(s[Len(s)])

\* str.strip(): int() ignores leading and trailing whitespace.
RECURSIVE Strip(_)
Strip(s) ==
    IF s = <<>> THEN s
    ELSE IF s[1] \in Whitespace THEN Strip(Tail(s))
    ELSE IF s[Len(s)] \in Whitespace THEN Strip(SubSeq(s, 1, Len(s) - 1))
    ELSE s

\* int(value) of a str: optional sign, then decimal digits, single
\* underscores allowed between digits.  <<>> stands for ValueError, <<n>>
\* for the result n.
PyInt(value) ==
    LET t == Strip(value)
        signed == t # <<>> /\ t[1] \in {"+", "-"}
        body == IF signed THEN Tail(t) ELSE t
        wellFormed ==
            /\ body # <<>>
            /\ \A i \in 1..Len(body) :
                 \/ body[i] \in Digits
                 \/ /\ body[i] = "_"
                    /\ 1 < i
                    /\ i < Len(body)
                    /\ body[i - 1] \in Digits
                    /\ body[i + 1] \in Digits
        n == DigitsValue(SelectSeq(body, LAMBDA c : c \in Digits))
    IN  IF ~wellFormed THEN <<>>
        ELSE IF signed /\ t[1] = "-" THEN <<0 - n>>
        ELSE <<n>>

\* The longest suffix of s made of decimal digits.
RECURSIVE DigitSuffix(_)
DigitSuffix(s) ==
    IF s = <<>> \/ s[Len(s)] \notin Digits THEN <<>>
    ELSE Append(DigitSuffix(SubSeq(s, 1, Len(s) - 1)), s[Len(s)])

\* re.compile(r"\d+$").search(value): the leftmost run of digits that ends
\* at the end of the string, or just before a newline that ends the
\* string.  <<>> stands for None, otherwise match.group().
re_num_search(value) ==
    IF value # <<>> /\ value[Len(value)] = "\n"
    THEN DigitSuffix(SubSeq(value, 1, Len(value) - 1))
    ELSE DigitSuffix(value)

(* ------------------------------- TDTS ---------------------------------- *)

\* Mutant: a value int() rejects is replaced by cell 0 instead of skipped.
TDTS_entry_Substitute(frames, frame) ==
    LET value == frame.value
        cell == PyInt(value)
    IN  IF value = SYMBOL_NULL_CELL \/ cell = <<>>
        THEN Append(frames, Frame(frame.frame, 0))
        ELSE Append(frames, Frame(frame.frame, cell[1]))

\* The body of "for frame in track['frames']" of TDTS.__read: the frames
\* list after the entry.
TDTS_entry(frames, frame) ==
    LET value == frame.value
        cell == PyInt(value)
    IN  IF value = SYMBOL_NULL_CELL THEN Append(frames, Frame(frame.frame, 0))
        ELSE IF cell = <<>> THEN frames
        ELSE Append(frames, Frame(frame.frame, cell[1]))

\* "for frame in track['frames']" from entry i on.
RECURSIVE TDTS_frames(_, _, _)
TDTS_frames(entries, i, frames) ==
    IF i > Len(entries) THEN frames
    ELSE TDTS_frames(entries, i + 1, TDTS_entry(frames, entries[i]))

\* TDTS.__read: tracks and names are those of the field and of the header
\* with fieldId 4; without either there are no layers.
TDTS_read(timeTable) ==
    LET tracks == timeTable.tracks
        names == timeTable.names
    IN  IF timeTable.fieldId = 4 /\ timeTable.headerId = 4
        THEN [k \in 1..Len(tracks) |->
                Layer(names[tracks[k].trackNo + 1],
                      TDTS_frames(tracks[k].frames, 1, <<>>))]
        ELSE <<>>

(* ------------------------------- XDTS ---------------------------------- *)

\* Mutant: "SYMBOL_HYPHEN" alone is skipped; the two tick sentinels go on to
\* the digit search, which finds their trailing 1 and 2.
XDTS_entry_TicksNotSkipped(st, frame) ==
    LET value == frame.value
        match == re_num_search(value)
    IN  IF value = SYMBOL_NULL_CELL
        THEN [st EXCEPT !.frames = Append(@, Frame(frame.frame, 0)),
                        !.cell = <<0>>]
        ELSE IF value = SYMBOL_HYPHEN
        THEN st
        ELSE IF match = <<>>
        THEN IF st.cell = <<>>
             THEN [st EXCEPT !.error = "UnboundLocalError"]
             ELSE [st EXCEPT !.frames = Append(@, Frame(frame.frame, st.cell[1]))]
        ELSE [st EXCEPT !.frames = Append(@, Frame(frame.frame, DigitsValue(match))),
                        !.cell = <<DigitsValue(match)>>]

\* The body of "for frame in track['frames']" of XDTS.__read.  The local
\* cell is <<>> while it is unbound and <<n>> once it has been assigned; it
\* is never reset, neither between entries nor between tracks.  Reading it
\* unbound raises UnboundLocalError, which nothing catches.
XDTS_entry(st, frame) ==
    LET value == frame.value
        match == re_num_search(value)
    IN  IF value = SYMBOL_NULL_CELL
        THEN [st EXCEPT !.frames = Append(@, Frame(frame.frame, 0)),
                        !.cell = <<0>>]
        ELSE IF value \in {SYMBOL_TICK_1, SYMBOL_TICK_2, SYMBOL_HYPHEN}
        THEN st
        ELSE IF match = <<>>
        THEN IF st.cell = <<>>
             THEN [st EXCEPT !.error = "UnboundLocalError"]
             ELSE [st EXCEPT !.frames = Append(@, Frame(frame.frame, st.cell[1]))]
        ELSE [st EXCEPT !.frames = Append(@, Frame(frame.frame, DigitsValue(match))),
                        !.cell = <<DigitsValue(match)>>]

\* "for frame in track['frames']" from entry i on; an exception ends it.
RECURSIVE XDTS_frames(_, _, _)
XDTS_frames(entries, i, st) ==
    IF i > Len(entries) \/ st.error # "" THEN st
    ELSE XDTS_frames(entries, i + 1, XDTS_entry(st, entries[i]))

\* "for track in tracks" from track k on: st.layers is the list layers.
RECURSIVE XDTS_tracks(_, _, _, _)
XDTS_tracks(tracks, names, k, st) ==
    IF k > Len(tracks) \/ st.error # "" THEN st
    ELSE LET done == XDTS_frames(tracks[k].frames, 1, [st EXCEPT !.frames = <<>>])
         IN  XDTS_tracks(tracks, names, k + 1,
                 IF done.error # "" THEN done
                 ELSE [done EXCEPT !.layers =
                         Append(@, Layer(names[tracks[k].trackNo + 1], done.frames))])

\* XDTS.__read: the tracks are those of the first field, the names those of
\* the header with the same fieldId; without such a header there are no
\* layers.
XDTS_read(timeTable) ==
    LET st0 == [error |-> "", layers |-> <<>>, frames |-> <<>>, cell |-> <<>>]
    IN  IF timeTable.headerId = timeTable.fieldId
        THEN XDTS_tracks(timeTable.tracks, timeTable.names, 1, st0)
        ELSE st0

(* ------------------------------ inputs --------------------------------- *)

\* Cell values written in the grids of the STS files.
CellValues ==
    {5, 7}

\* An unsigned 16-bit number as 2 little-endian bytes.
Bytes2(n) ==
    <<n % 256, n \div 256>>

\* A well-formed STS file of lc layers and fc frames: grid[(i - 1) * fc + j]
\* is the cell of layer i at frame j - 1, and layer i has the one-byte name
\* of code 64 + i ("A", "B", ...).
STSFile(lc, fc, grid) ==
    <<0>> \o Magic \o <<lc>> \o Bytes2(fc) \o <<0, 0>>
        \o [b \in 1..(2 * lc * fc) |-> Bytes2(grid[(b + 1) \div 2])[2 - (b % 2)]]
        \o [b \in 1..(2 * lc) |-> IF b % 2 = 1 THEN 1 ELSE 64 + b \div 2]

\* The file with the first byte of its magic overwritten.
BadMagic(stream) ==
    [stream EXCEPT ![2] = 88]

\* The .sts files: every well-formed file of at most MaxLayers layers and
\* MaxFrameCount frames, every truncation of one (the empty file included),
\* and every well-formed file with a wrong magic.
IsSTSFile(f) ==
    \E lc \in 0..MaxLayers, fc \in 0..MaxFrameCount :
        \E grid \in [1..(lc * fc) -> CellValues] :
            LET full == STSFile(lc, fc, grid)
            IN  \/ \E n \in 0..Len(full) : f = SubSeq(full, 1, n)
                \/ f = BadMagic(full)

\* Frame values of the .tdts files: the sentinel, an integer, two strings
\* that int() rejects.
TDTSValues ==
    {SYMBOL_NULL_CELL, <<"7">>, <<"a", "b", "c">>, <<"c", "e", "l", "l", "_", "0", "4", "2">>}

\* Frame values of the .xdts files: the four sentinels, a string with a
\* trailing digit run and one without.
XDTSValues ==
    {SYMBOL_NULL_CELL, SYMBOL_TICK_1, SYMBOL_TICK_2, SYMBOL_HYPHEN,
     <<"c", "e", "l", "l", "_", "0", "4", "2">>, <<"a", "b", "c">>}

\* The frame entries of a track: frame["frame"] and
\* frame["data"][0]["values"][0].
Entries(values) ==
    [frame : 0..MaxFrame, value : values]

\* The track lists that hold the entries s in order: no track, one track,
\* or two tracks that split s (either may be empty).
TrackLists(s) ==
    {<<>>, <<[trackNo |-> 0, frames |-> s]>>}
        \cup {<<[trackNo |-> 0, frames |-> SubSeq(s, 1, n)],
                [trackNo |-> 1, frames |-> SubSeq(s, n + 1, Len(s))]>> :
              n \in 0..Len(s)}

\* A timeTable: one field and one header with their fieldIds, the header's
\* names for track numbers 0 and 1, and the field's tracks.
TimeTable(fieldId, headerId, tracks) ==
    [fieldId |-> fieldId, headerId |-> headerId, duration |-> MaxFrame + 1,
     names |-> <<"A", "B">>, tracks |-> tracks]

\* The timeTables of a JSON file: field and header both have fieldId 4 over
\* every track list of at most MaxEntries entries; the other fieldIds (4 or 5)
\* come with the track lists of at most one entry.
IsTimeTable(f, values) ==
    \/ \E s \in SeqsUpTo(Entries(values), MaxEntries) :
           \E t \in TrackLists(s) : f = TimeTable(4, 4, t)
    \/ \E s \in SeqsUpTo(Entries(values), 1) :
           \E t \in TrackLists(s) :
               \E fieldId \in {4, 5}, headerId \in {4, 5} :
                   f = TimeTable(fieldId, headerId, t)

(* --------------------------- specification ----------------------------- *)

Init ==
    /\ \/ ext = "sts" /\ IsSTSFile(file)
       \/ ext = "tdts" /\ IsTimeTable(file, TDTSValues)
       \/ ext = "xdts" /\ IsTimeTable(file, XDTSValues)
       \/ ext = "zip" /\ file = <<>>
    /\ pc = "call"
    /\ raw = <<>>
    /\ layers = <<>>
    /\ frame_count = 0
    /\ error = ""

\* An exception leaves load(): no Timesheet is returned.
Raise(e, ls) ==
    /\ pc' = "raised"
    /\ error' = e
    /\ raw' = ls
    /\ layers' = <<>>
    /\ frame_count' = 0

\* super().__init__(path, name, frame_count, layers) and the return of
\* load(): raw is the reader's list as the constructor receives it, layers
\* the same list after the constructor.
Construct(ls, fc) ==
    LET t == Timesheet(ls)
    IN  IF t.error # "" THEN Raise(t.error, ls)
        ELSE /\ pc' = "returned"
             /\ error' = ""
             /\ raw' = ls
             /\ layers' = t.layers
             /\ frame_count' = fc

\* load() of a .sts file: STS(file_path).
LoadSTS ==
    /\ pc = "call"
    /\ ext = "sts"
    /\ LET r == STS_read(file)
       IN  IF r.error # "" THEN Raise(r.error, <<>>)
           ELSE Construct(r.layers, r.frame_count)
    /\ UNCHANGED <<ext, file>>

\* load() of a .tdts file with one timeTable: TDTS(file_path, cut, timeTable).
LoadTDTS ==
    /\ pc = "call"
    /\ ext = "tdts"
    /\ Construct(TDTS_read(file), file.duration)
    /\ UNCHANGED <<ext, file>>

\* load() of a .xdts file with one timeTable: XDTS(file_path, timeTable).
LoadXDTS ==
    /\ pc = "call"
    /\ ext = "xdts"
    /\ LET r == XDTS_read(file)
       IN  IF r.error # "" THEN Raise(r.error, <<>>)
           ELSE Construct(r.layers, file.duration)
    /\ UNCHANGED <<ext, file>>

\* load() of a file with any other extension.
LoadOther ==
    /\ pc = "call"
    /\ ext \notin {"sts", "tdts", "xdts"}
    /\ Raise("TimeseetFileTypeError", <<>>)
    /\ UNCHANGED <<ext, file>>

Next ==
    \/ LoadSTS
    \/ LoadTDTS
    \/ LoadXDTS
    \/ LoadOther

Spec ==
    Init /\ [][Next]_vars

(* ------------------------------ claims --------------------------------- *)

\* load() has returned a Timesheet.
Returned ==
    pc = "returned"

\* The frame indices of frames never decrease.
Ascending(frames) ==
    \A i \in 1..(Len(frames) - 1) : frames[i].frame <= frames[i + 1].frame

\* The layer has an entry at frame f.
HasEntryAt(frames, f) ==
    \E i \in 1..Len(frames) : frames[i].frame = f

\* C1: in every Timesheet that load returns, from any of the three readers,
\* every layer has a first entry and that entry is at frame 0; it is the
\* synthetic (0, 0) when the reader collected no entry at frame 0.
C1_FrameZero ==
    Returned =>
        \A k \in 1..Len(layers) :
            /\ layers[k].frames # <<>>
            /\ layers[k].frames[1].frame = 0
            /\ ~HasEntryAt(raw[k].frames, 0) =>
                   layers[k].frames[1] = Frame(0, 0)

\* C1 witness: a JSON reader handed over a layer whose first entry is not at
\* frame 0, and the returned layer starts with the synthetic (0, 0).
C1_Witness ==
    /\ Returned
    /\ ext \in {"tdts", "xdts"}
    /\ \E k \in 1..Len(layers) :
           /\ raw[k].frames[1].frame # 0
           /\ layers[k].frames[1] = Frame(0, 0)

\* C2: in every Timesheet that load returns, no layer has two adjacent
\* entries with the same cell.
C2_NoConsecutiveDuplicates ==
    Returned =>
        \A k \in 1..Len(layers) :
            \A i \in 2..Len(layers[k].frames) :
                layers[k].frames[i].cell # layers[k].frames[i - 1].cell

\* C2 witness: the raw layer starts after frame 0 and holds two entries of
\* cell 0, so that the inserted (0, 0) starts a run of three equal cells, and
\* the returned layer is the single entry (0, 0).
C2_Witness ==
    /\ Returned
    /\ \E k \in 1..Len(layers) :
           /\ Len(raw[k].frames) >= 2
           /\ raw[k].frames[1].frame # 0
           /\ \A i \in 1..Len(raw[k].frames) : raw[k].frames[i].cell = 0
           /\ layers[k].frames = <<Frame(0, 0)>>

C6_NormalizationIdempotent ==
    Returned =>
        \A k \in 1..Len(layers) :
            Normalize(layers[k].frames) = layers[k].frames

\* C6 witness: a layer that the first normalization did change, by the
\* insertion and by a removal.
C6_Witness ==
    /\ Returned
    /\ \E k \in 1..Len(layers) :
           /\ raw[k].frames[1].frame # 0
           /\ Len(layers[k].frames) < Len(raw[k].frames) + 1

\* The number of bytes of the header of a .sts file: reserved byte, magic,
\* layer_count, frame_count, two reserved bytes.
HeaderBytes ==
    1 + Len(Magic) + 1 + 2 + 2

\* The end of the n name records that start at position pos, as far as the
\* stream tells their lengths.
RECURSIVE NamesEnd(_, _, _)
NamesEnd(stream, pos, n) ==
    IF n = 0 THEN pos
    ELSE IF pos + 1 > Len(stream) THEN pos + 1
    ELSE NamesEnd(stream, pos + 1 + stream[pos + 1], n - 1)

\* A stream with a whole header that ends before the last of the
\* layer_count * frame_count cells and of the name records its header and
\* name lengths call for.
EndsEarly(stream) ==
    /\ Len(stream) >= HeaderBytes
    /\ LET lc == stream[Len(Magic) + 2]
           fc == stream[Len(Magic) + 3] + 256 * stream[Len(Magic) + 4]
       IN  NamesEnd(stream, HeaderBytes + 2 * lc * fc, lc) > Len(stream)

\* C4 as claimed: load of a .sts file whose magic is right and whose stream
\* ends before all cells and name records have been read raises, and no
\* Timesheet is returned.
C4_ShortReadIsFatal ==
    (ext = "sts" /\ pc # "call" /\ EndsEarly(file)) => pc = "raised"

\* The dense grid of layer k (1-based) of a .sts file of fc frames: the cell
\* of every frame, each read as the reader reads it.
DenseGrid(stream, fc, k) ==
    [j \in 1..fc |->
        ReadInt(stream, HeaderBytes + 2 * ((k - 1) * fc + (j - 1)), 2)]

\* The run-length compression of a dense grid: the entry (j, grid[j]) for
\* j = 0 and for every j >= 1 with grid[j] # grid[j - 1], in ascending j
\* (grid[j] being grid[j + 1] of the sequence).
Compress(grid) ==
    LET changes == {j \in 1..Len(grid) : j = 1 \/ grid[j] # grid[j - 1]}
        nth(n) == CHOOSE j \in changes :
                      Cardinality({x \in changes : x <= j}) = n
    IN  [n \in 1..Cardinality(changes) |-> Frame(nth(n) - 1, grid[nth(n)])]

\* C7: every layer of a Timesheet returned for a .sts file holds exactly the
\* run-length compression of its dense grid, and the constructor found the
\* reader's list already in that form.
C7_STSDenseEquivalence ==
    (ext = "sts" /\ Returned) =>
        \A k \in 1..Len(layers) :
            /\ layers[k].frames = Compress(DenseGrid(file, frame_count, k))
            /\ raw[k].frames = layers[k].frames

\* C7 witness: the grid [5, 5, 7, 7] of a whole one-layer file gives
\* [(0, 5), (2, 7)].
C7_Witness ==
    /\ ext = "sts"
    /\ Returned
    /\ ~EndsEarly(file)
    /\ Len(layers) = 1
    /\ frame_count = 4
    /\ DenseGrid(file, 4, 1) = <<5, 5, 7, 7>>
    /\ layers[1].frames = <<Frame(0, 5), Frame(2, 7)>>

\* C8 as claimed: a layer whose raw sequence is empty (a .sts file that is
\* whole and has frame_count 0, a JSON track without kept entries) is
\* constructed as the single entry (0, 0), and the construction of the
\* Timesheet succeeds.
C8_EmptyLayerBecomesZeroEntry ==
    (pc # "call"
        /\ (ext = "sts" => Len(file) >= HeaderBytes /\ ~EndsEarly(file))) =>
        \A k \in 1..Len(raw) :
            raw[k].frames = <<>> =>
                /\ Returned
                /\ layers[k].frames = <<Frame(0, 0)>>

\* What a frame value of the .tdts files is as a base-10 integer: <<n>>, or
\* <<>> when it is none.  The sentinel is cell 0.
TDTSCell(value) ==
    CASE value = SYMBOL_NULL_CELL -> <<0>>
      [] value = <<"7">> -> <<7>>
      [] OTHER -> <<>>

\* What a frame value of the .xdts files is as a cell: the number of its
\* trailing digit run, 0 for the null sentinel, <<>> when it has neither.
XDTSCell(value) ==
    CASE value = SYMBOL_NULL_CELL -> <<0>>
      [] value = <<"c", "e", "l", "l", "_", "0", "4", "2">> -> <<42>>
      [] OTHER -> <<>>

\* The three sentinels of the .xdts files that stand for no entry.
DropSentinels ==
    {SYMBOL_TICK_1, SYMBOL_TICK_2, SYMBOL_HYPHEN}

\* The frame entries of the tracks 1..k of a timeTable, in source order.
RECURSIVE EntriesUpTo(_, _)
EntriesUpTo(tracks, k) ==
    IF k = 0 THEN <<>>
    ELSE EntriesUpTo(tracks, k - 1) \o tracks[k].frames

\* A frame value that cannot be converted to a cell.
Unconvertible(value) ==
    \/ ext = "tdts" /\ TDTSCell(value) = <<>>
    \/ ext = "xdts" /\ value \notin DropSentinels /\ XDTSCell(value) = <<>>

\* The timeTable without its unconvertible frame entries.
WithoutUnconvertible(timeTable) ==
    [timeTable EXCEPT !.tracks =
        [k \in 1..Len(timeTable.tracks) |->
            [timeTable.tracks[k] EXCEPT !.frames =
                SelectSeq(@, LAMBDA e : ~Unconvertible(e.value))]]]

\* The timeTable loads: its reader and the constructor raise nothing.
Loads(timeTable) ==
    IF ext = "tdts" THEN Timesheet(TDTS_read(timeTable)).error = ""
    ELSE /\ XDTS_read(timeTable).error = ""
         /\ Timesheet(XDTS_read(timeTable).layers).error = ""

\* C5 as claimed: a frame entry whose value cannot be converted never aborts
\* the parse: a timeTable that loads without its unconvertible entries loads
\* with them.
C5_UnconvertibleNeverAborts ==
    (ext \in {"tdts", "xdts"} /\ pc # "call"
        /\ Loads(WithoutUnconvertible(file))) => Returned

\* The raw sequence the TDTS reader owes a track: in source order, (f, 0)
\* for the null sentinel at frame f, (f, n) for the integer n, nothing for a
\* value that is no integer.
TDTSRaw(entries) ==
    LET kept == SelectSeq(entries, LAMBDA e : TDTSCell(e.value) # <<>>)
    IN  [n \in 1..Len(kept) |->
            Frame(kept[n].frame, TDTSCell(kept[n].value)[1])]

\* A .tdts load whose timeTable has the field and the header with fieldId 4
\* has run its reader.
TDTSRead ==
    ext = "tdts" /\ pc # "call" /\ file.fieldId = 4 /\ file.headerId = 4

\* Entry i is the only entry of the track at its frame.
OnlyEntryAtItsFrame(src, i) ==
    \A j \in 1..Len(src) : j # i => src[j].frame # src[i].frame

\* C9 as claimed: the raw sequence of every track is TDTSRaw of its entries,
\* and for every frame index f the returned layer has no entry at frame f
\* when the track's one entry at frame f has a non-integer value.
C9_DroppedFrameHasNoEntry ==
    TDTSRead =>
        \A k \in 1..Len(raw) :
            LET src == file.tracks[k].frames
            IN  /\ raw[k].frames = TDTSRaw(src)
                /\ \A i \in 1..Len(src) :
                       (/\ Returned
                        /\ TDTSCell(src[i].value) = <<>>
                        /\ OnlyEntryAtItsFrame(src, i)) =>
                           ~HasEntryAt(layers[k].frames, src[i].frame)

\* C9 amended: the raw sequence of every track is TDTSRaw of its entries,
\* and the returned layer has no entry at frame f when the track has a
\* non-integer value at frame f, f is not 0 (where every layer has an entry)
\* and no other entry of the track at frame f is kept.
C9_DroppedValueAddsNoEntry ==
    TDTSRead =>
        \A k \in 1..Len(raw) :
            LET src == file.tracks[k].frames
            IN  /\ raw[k].frames = TDTSRaw(src)
                /\ \A i \in 1..Len(src) :
                       (/\ Returned
                        /\ TDTSCell(src[i].value) = <<>>
                        /\ src[i].frame # 0
                        /\ ~HasEntryAt(TDTSRaw(src), src[i].frame)) =>
                           ~HasEntryAt(layers[k].frames, src[i].frame)

\* C9 witness: a track with the null sentinel and, at frame 1, a value that
\* is no integer; the returned layer has (0, 0) and nothing at frame 1.
C9_Witness ==
    /\ TDTSRead
    /\ Returned
    /\ \E k \in 1..Len(raw) :
           LET src == file.tracks[k].frames
           IN  /\ \E i \in 1..Len(src) : src[i].value = SYMBOL_NULL_CELL
               /\ \E i \in 1..Len(src) :
                      /\ TDTSCell(src[i].value) = <<>>
                      /\ src[i].frame = 1
               /\ ~HasEntryAt(layers[k].frames, 1)

\* The cell the XDTS reader holds after the entries before: that of the last
\* of them that is the null sentinel or has a trailing digit run, <<>> when
\* there is none.
CellAfter(before) ==
    LET setters == {j \in 1..Len(before) : XDTSCell(before[j].value) # <<>>}
    IN  IF setters = {} THEN <<>>
        ELSE XDTSCell(before[CHOOSE j \in setters :
                                 \A x \in setters : x <= j].value)

\* The raw sequence the XDTS reader owes track k: in source order, one entry
\* for every entry of the track that is none of the three drop sentinels,
\* with cell 0 for the null sentinel, the number of the trailing digit run,
\* or else the cell held after the entries before it (in this track and in
\* the tracks before, drop sentinels leaving it as it is).
XDTSRaw(tracks, k) ==
    LET src == tracks[k].frames
        at == SelectSeq([i \in 1..Len(src) |-> i],
                        LAMBDA i : src[i].value \notin DropSentinels)
        cellOf(i) ==
            IF XDTSCell(src[i].value) # <<>> THEN XDTSCell(src[i].value)
            ELSE CellAfter(EntriesUpTo(tracks, k - 1) \o SubSeq(src, 1, i - 1))
    IN  [n \in 1..Len(at) |-> Frame(src[at[n]].frame, cellOf(at[n])[1])]

\* Some entry without digits comes before any entry that sets the cell.
ReadsUnboundCell(tracks) ==
    LET all == EntriesUpTo(tracks, Len(tracks))
    IN  \E i \in 1..Len(all) :
            /\ all[i].value \notin DropSentinels
            /\ XDTSCell(all[i].value) = <<>>
            /\ CellAfter(SubSeq(all, 1, i - 1)) = <<>>

\* C10: the XDTS reader gives every track the raw sequence XDTSRaw: the
\* three drop sentinels add no entry and leave the cell of later entries as
\* it was, the null sentinel at frame f adds (f, 0), and the entries kept are
\* in source order.  The reader stops with an exception only at an entry
\* without digits that no cell-setting entry precedes.
C10_XDTSDropSentinels ==
    (ext = "xdts" /\ pc # "call" /\ file.headerId = file.fieldId) =>
        IF ReadsUnboundCell(file.tracks)
        THEN error = "UnboundLocalError"
        ELSE /\ error # "UnboundLocalError"
             /\ Len(raw) = Len(file.tracks)
             /\ \A k \in 1..Len(raw) :
                    raw[k].frames = XDTSRaw(file.tracks, k)

\* C10 witness: a track with a drop sentinel and the null sentinel at frame
\* 1; its raw sequence is the single entry (1, 0).
C10_Witness ==
    /\ ext = "xdts"
    /\ Returned
    /\ \E k \in 1..Len(raw) :
           LET src == file.tracks[k].frames
           IN  /\ \E i \in 1..Len(src) : src[i].value \in DropSentinels
               /\ \E i \in 1..Len(src) :
                      src[i] = [frame |-> 1, value |-> SYMBOL_NULL_CELL]
               /\ raw[k].frames = <<Frame(1, 0)>>

====
